---- MODULE Spec2Model ----
(***************************************************************************)
(* publishEvent.py: DynamoDB stream records are turned into Discord embeds *)
(* (load_dict_values, compare_event_descriptions, construct_embed) and     *)
(* handed to send_to_discord; calculate_discord_delay reads the rate-limit *)
(* metadata of a response.                                                 *)
(*                                                                         *)
(* A Python str is modelled as a sequence of tokens; every token stands    *)
(* for a fixed run of characters whose length is TokLen[token].  String    *)
(* concatenation is \o, len() is PyLen, == is equality of sequences.       *)
(* Times are in milliseconds.                                              *)
(***************************************************************************)
EXTENDS Integers, Sequences, FiniteSets, TLC

VARIABLES pc, ev, details, embeds, idx, status, delay, posts, failPosts, exc, resp

vars == <<pc, ev, details, embeds, idx, status, delay, posts, failPosts, exc, resp>>

(***************************************************************************)
(* Bounds of the model.                                                    *)
(***************************************************************************)
MaxParas == 4        \* paragraphs in a description (single-record model)
MaxRetryAfter == 3   \* largest retry_after of a 429 body, in seconds
MaxResetAfter == 5   \* largest x-ratelimit-reset-after header, in seconds

(***************************************************************************)
(* Program constants.                                                      *)
(***************************************************************************)
fixed_delay == 250           \* float(0.25) seconds
DeltaMaxChars == 990         \* split_message(delta, 990)
ChunkBudget == 3000          \* if chunk_chars <= 3000
InitialDelay == 250          \* delay = 0.25

colors == [Issue |-> 16711680, Resolved |-> 65280,
           Change |-> 16760576, Historical |-> 38655]

fieldKeys == <<"startTime", "endTime", "lastUpdatedTime", "region">>

None == "None"

(***************************************************************************)
(* Strings.                                                                *)
(***************************************************************************)
TokLen ==
  [t \in {"MARK", "NL", "NLNL", "SP", "OPEN", "CLOSE", "+", "-", "w", "x", "L",
          "INS:eventDescription", "INS:region", "INS:service",
          "CHG:region", "CHG:service", "MID", "END",
          "us-east-1", "eu-west-1", "EC2", "open", "closed", "upcoming",
          "AWS_EC2_ISSUE", "<nokey>"} |->
     CASE t = "MARK"  -> 25      \* '**DESCRIPTION CHANGED:**\n'
       [] t = "NL"    -> 1       \* '\n'
       [] t = "NLNL"  -> 2       \* '\n\n'
       [] t = "SP"    -> 1       \* ' '
       [] t = "OPEN"  -> 8       \* '```diff\n'
       [] t = "CLOSE" -> 4       \* '\n```'
       [] t = "+"     -> 1
       [] t = "-"     -> 1
       [] t = "w"     -> 493     \* a word
       [] t = "x"     -> 494     \* another word
       [] t = "L"     -> 3500    \* one unbroken long token
       [] t = "INS:eventDescription" -> 17  \* '**DESCRIPTION:** '
       [] t = "INS:region"  -> 12           \* '**REGION:** '
       [] t = "INS:service" -> 13           \* '**SERVICE:** '
       [] t = "CHG:region"  -> 48  \* '**REGION CHANGED**\n**Updated value:**\n```diff\n+ '
       [] t = "CHG:service" -> 49
       [] t = "MID"   -> 34      \* '\n```**Previous value:**\n```diff\n- '
       [] t = "END"   -> 5       \* '\n```\n'
       [] t = "us-east-1" -> 9
       [] t = "eu-west-1" -> 9
       [] t = "EC2"   -> 3
       [] t = "open"  -> 4
       [] t = "closed" -> 6
       [] t = "upcoming" -> 8
       [] t = "AWS_EC2_ISSUE" -> 13
       [] OTHER -> 0]

RECURSIVE PyLen(_)
PyLen(s) == IF s = <<>> THEN 0 ELSE TokLen[Head(s)] + PyLen(Tail(s))

\* ''.join(list of strings)
RECURSIVE Join(_)
Join(ss) == IF ss = <<>> THEN <<>> ELSE Head(ss) \o Join(Tail(ss))

\* s.split(sep) for a one-token separator: always at least one piece
RECURSIVE SplitOn(_, _)
SplitOn(s, sep) ==
  IF s = <<>> THEN << <<>> >>
  ELSE LET rest == SplitOn(Tail(s), sep) IN
       IF Head(s) = sep THEN << <<>> >> \o rest
       ELSE << <<Head(s)>> \o Head(rest) >> \o Tail(rest)

StartsWith(s, t) == s # <<>> /\ Head(s) = t

\* a dict entry that is not there
NoKey == <<"<nokey>">>

(***************************************************************************)
(* split_message: textwrap.wrap(msg, maxchars, break_long_words=False,     *)
(* replace_whitespace=False).  Words are the pieces between spaces; a line *)
(* is filled greedily; a word longer than maxchars is a line of its own.   *)
(***************************************************************************)
RECURSIVE WrapWords(_, _, _)
WrapWords(words, cur, maxchars) ==
  IF words = <<>> THEN (IF cur = <<>> THEN <<>> ELSE <<cur>>)
  ELSE LET w == Head(words) IN
       IF w = <<>> THEN WrapWords(Tail(words), cur, maxchars)
       ELSE IF cur = <<>> THEN WrapWords(Tail(words), w, maxchars)
       ELSE IF PyLen(cur) + TokLen["SP"] + PyLen(w) <= maxchars
            THEN WrapWords(Tail(words), cur \o <<"SP">> \o w, maxchars)
            ELSE <<cur>> \o WrapWords(Tail(words), w, maxchars)

split_message(msg, maxchars) == WrapWords(SplitOn(msg, "SP"), <<>>, maxchars)

(***************************************************************************)
(* difflib.ndiff over two lists of paragraphs, unchanged ('  ') lines      *)
(* left out: the longest matching block (first in a, then first in b) is   *)
(* kept and both sides of it are compared in turn; a stretch with nothing  *)
(* in common is a plain replace.                                           *)
(***************************************************************************)
Matches(a, b) ==
  {m \in (1..Len(a)) \X (1..Len(b)) \X (1..Len(a)) :
     /\ m[1] + m[3] - 1 <= Len(a)
     /\ m[2] + m[3] - 1 <= Len(b)
     /\ SubSeq(a, m[1], m[1] + m[3] - 1) = SubSeq(b, m[2], m[2] + m[3] - 1)}

LongestMatch(a, b) ==
  CHOOSE m \in Matches(a, b) :
    \A o \in Matches(a, b) :
       \/ m[3] > o[3]
       \/ m[3] = o[3] /\ m[1] < o[1]
       \/ m[3] = o[3] /\ m[1] = o[1] /\ m[2] <= o[2]

DiffLines(code, ps) == [i \in 1..Len(ps) |-> <<code, "SP">> \o ps[i]]

RECURSIVE ndiff_changed(_, _)
ndiff_changed(a, b) ==
  IF Matches(a, b) = {}
  THEN IF Len(b) < Len(a)
       THEN DiffLines("+", b) \o DiffLines("-", a)
       ELSE DiffLines("-", a) \o DiffLines("+", b)
  ELSE LET m == LongestMatch(a, b) IN
       ndiff_changed(SubSeq(a, 1, m[1] - 1), SubSeq(b, 1, m[2] - 1))
       \o ndiff_changed(SubSeq(a, m[1] + m[3], Len(a)), SubSeq(b, m[2] + m[3], Len(b)))

(***************************************************************************)
(* compare_event_descriptions                                              *)
(***************************************************************************)
FormatChunk(diff_code, chunk) ==
  IF ~(StartsWith(chunk, "+") \/ StartsWith(chunk, "-"))
  THEN <<"OPEN", diff_code, "SP">> \o chunk \o <<"CLOSE">>
  ELSE IF chunk # <<"+", "SP">>          \* ('+ ' or '- ') is '+ '
  THEN <<"OPEN">> \o chunk \o <<"CLOSE">>
  ELSE chunk

FormatChunks(delta) ==
  LET lines == split_message(delta, DeltaMaxChars)
  IN  [i \in 1..Len(lines) |-> FormatChunk(Head(delta), lines[i])]

RECURSIVE ChunkAll(_)
ChunkAll(delta_list) ==
  IF delta_list = <<>> THEN <<>>
  ELSE FormatChunks(Head(delta_list)) \o ChunkAll(Tail(delta_list))

compare_event_descriptions(old, new) ==
  ChunkAll(ndiff_changed(SplitOn(old, "NLNL"), SplitOn(new, "NLNL")))

(***************************************************************************)
(* The details dict of lambda_handler: one entry per tracked attribute     *)
(* (the attributes that no function reads back are left out).  'Action'    *)
(* and 'FullName' are fixed; NewValue, OldValue and Delta are set by       *)
(* load_dict_values.  Delta is <<>> when the key is not there and          *)
(* <<chunk_list>> when it is.                                              *)
(***************************************************************************)
Keys == {"eventDescription", "region", "startTime", "lastUpdatedTime",
         "endTime", "statusCode", "service", "eventTypeCode"}

\* the keys in the order the dict literal lists them
KeyOrder == <<"eventDescription", "region", "startTime", "lastUpdatedTime",
              "endTime", "statusCode", "service", "eventTypeCode">>

DetailAction ==
  [k \in Keys |-> IF k \in {"eventDescription", "region", "service"}
                  THEN {"INSERT", "MODIFY"} ELSE {"PRIVATE"}]

FreshDetails ==
  [k \in Keys |-> [NewValue |-> NoKey, OldValue |-> NoKey, Delta |-> <<>>]]

Raise(e) == [exc |-> e, val |-> <<>>]
Return(v) == [exc |-> None, val |-> v]

(***************************************************************************)
(* load_dict_values(event, action, details); the arn entry is not read by  *)
(* any later step and is left out.                                         *)
(***************************************************************************)
load_dict_values(event, action, dts) ==
  LET new_data == event.NewImage
      old_data == event.OldImage
      d1 == [k \in Keys |-> IF new_data[k] # NoKey
                            THEN [dts[k] EXCEPT !.NewValue = new_data[k]]
                            ELSE dts[k]]
      d2 == [k \in Keys |-> IF old_data[k] # NoKey
                            THEN [d1[k] EXCEPT !.OldValue = old_data[k]]
                            ELSE d1[k]]
      desc == d2["eventDescription"]
  IN  IF action # "MODIFY" THEN Return(d1)
      ELSE IF old_data["eventDescription"] = new_data["eventDescription"]
      THEN Return(d2)
      ELSE IF desc.OldValue = NoKey \/ desc.NewValue = NoKey
      THEN Raise("KeyError")
      ELSE Return([d2 EXCEPT !["eventDescription"].Delta =
                     << compare_event_descriptions(desc.OldValue, desc.NewValue) >>])

(***************************************************************************)
(* create_embed_header: a missing NewValue is a KeyError that is logged,   *)
(* after which the function returns None; a combination no branch takes    *)
(* leaves embed_title unbound at the return.                               *)
(***************************************************************************)
Header(t, c) == [exc |-> None, none |-> FALSE, title |-> t, color |-> c]
HeaderNone == [exc |-> None, none |-> TRUE, title |-> None, color |-> 0]
HeaderRaise(e) == [exc |-> e, none |-> FALSE, title |-> None, color |-> 0]

\* the ladder with a final else: an unmatched combination gets a title
create_embed_header_fallthrough(action, dts) ==
  IF \/ dts["eventTypeCode"].NewValue = NoKey
     \/ dts["service"].NewValue = NoKey
     \/ dts["statusCode"].NewValue = NoKey
  THEN HeaderNone
  ELSE IF dts["statusCode"].NewValue = <<"closed">>
  THEN Header("(RESOLVED)", colors.Historical)
  ELSE Header("NEW DETECTED", colors.Issue)

create_embed_header(action, dts) ==
  LET new_status == dts["statusCode"].NewValue
      old_status == dts["statusCode"].OldValue
  IN
  IF \/ dts["eventTypeCode"].NewValue = NoKey
     \/ dts["service"].NewValue = NoKey
     \/ new_status = NoKey
  THEN HeaderNone
  ELSE IF action = "INSERT"
  THEN IF new_status = <<"open">> THEN Header("NEW DETECTED", colors.Issue)
       ELSE IF new_status = <<"closed">>
       THEN Header("(RESOLVED) DETECTED", colors.Historical)
       ELSE HeaderRaise("UnboundLocalError")
  ELSE IF action = "MODIFY"
  THEN IF old_status = NoKey THEN HeaderRaise("KeyError")
       ELSE IF new_status = <<"open">> /\ old_status = <<"open">>
       THEN Header("WAS UPDATED", colors.Change)
       ELSE IF new_status = <<"closed">> /\ old_status = <<"closed">>
       THEN Header("(RESOLVED)", colors.Historical)
       ELSE IF new_status = <<"open">> /\ old_status = <<"closed">>
       THEN Header("WAS REOPENED", colors.Issue)
       ELSE IF new_status = <<"closed">> /\ old_status = <<"open">>
       THEN Header("WAS RESOLVED", colors.Resolved)
       ELSE HeaderRaise("UnboundLocalError")
  ELSE HeaderRaise("UnboundLocalError")

(***************************************************************************)
(* create_embed_content                                                    *)
(***************************************************************************)
InsertLine(k, dts) ==
  <<"INS:" \o k>> \o dts[k].NewValue \o <<"NLNL">>

ModifyBlock(k, dts) ==
  <<"CHG:" \o k>> \o dts[k].NewValue \o <<"MID">> \o dts[k].OldValue \o <<"END">>

RECURSIVE ContentLoop(_, _, _)
ContentLoop(action, dts, ks) ==
  IF ks = <<>> THEN Return(<<>>)
  ELSE LET k == Head(ks)
           rest == ContentLoop(action, dts, Tail(ks))
           Cons(b) == IF rest.exc # None THEN rest ELSE Return(<<b>> \o rest.val)
       IN
       IF action = "INSERT" /\ "INSERT" \in DetailAction[k]
       THEN IF dts[k].NewValue = NoKey THEN Raise("KeyError")
            ELSE Cons(InsertLine(k, dts))
       ELSE IF action = "MODIFY" /\ "MODIFY" \in DetailAction[k]
               /\ k # "eventDescription"
       THEN IF dts[k].NewValue = NoKey \/ dts[k].OldValue = NoKey
            THEN Raise("KeyError")
            ELSE IF dts[k].NewValue # dts[k].OldValue
            THEN Cons(ModifyBlock(k, dts))
            ELSE rest
       ELSE rest

create_embed_content(action, dts) == ContentLoop(action, dts, KeyOrder)

(***************************************************************************)
(* create_embed_fields: a field per key of fieldKeys that has a NewValue;  *)
(* a value that parses as an ISO time is shown as a Discord timestamp.     *)
(***************************************************************************)
IsIsoTime(v) == v = <<"2022-03-01T10:00:00">>

FieldFor(k, dts) ==
  [name |-> k,
   value |-> IF ~IsIsoTime(dts[k].NewValue) THEN dts[k].NewValue
             ELSE IF k = "lastUpdatedTime" THEN <<"<t:R>">> ELSE <<"<t:F>">>,
   inline |-> "True"]

RECURSIVE FieldsLoop(_, _)
FieldsLoop(dts, ks) ==
  IF ks = <<>> THEN <<>>
  ELSE IF dts[Head(ks)].NewValue = NoKey THEN FieldsLoop(dts, Tail(ks))
  ELSE <<FieldFor(Head(ks), dts)>> \o FieldsLoop(dts, Tail(ks))

create_embed_fields(dts) == FieldsLoop(dts, fieldKeys)

(***************************************************************************)
(* construct_embed                                                         *)
(***************************************************************************)
HasDelta(dts) == dts["eventDescription"].Delta # <<>>

\* embed_desc: the content blocks, in order
EmbedDesc(dts, parameters) ==
  IF HasDelta(dts)
  THEN << <<"MARK">> >> \o Head(dts["eventDescription"].Delta)
       \o << <<"NL">> >> \o parameters
  ELSE parameters

\* the loop over embed_desc and the append after it
RECURSIVE PackLoop(_, _, _, _, _)
PackLoop(embed_desc, i, chunk_list, chunk_data, chunk_chars) ==
  IF i > Len(embed_desc) THEN Append(chunk_list, chunk_data)
  ELSE IF chunk_chars <= ChunkBudget
  THEN PackLoop(embed_desc, i + 1, chunk_list,
                chunk_data \o embed_desc[i], chunk_chars + PyLen(embed_desc[i]))
  ELSE PackLoop(embed_desc, i + 1, Append(chunk_list, chunk_data), <<>>, 0)

\* the partial chunk is appended only when it is not empty
PackChunksSkipEmpty(embed_desc) ==
  LET chunk_list == PackLoop(embed_desc, 1, <<>>, <<>>, 0)
  IN  IF chunk_list[Len(chunk_list)] = <<>>
      THEN SubSeq(chunk_list, 1, Len(chunk_list) - 1)
      ELSE chunk_list

PackChunks(embed_desc) == PackLoop(embed_desc, 1, <<>>, <<>>, 0)

IsFirstDesc(merged_descs, j) == merged_descs[j] = merged_descs[1]
\* the footer test left out: every embed takes fields, footer and timestamp
IsLastDescAlways(merged_descs, j) == TRUE

IsLastDesc(merged_descs, j) == merged_descs[j] = merged_descs[Len(merged_descs)]

\* the dicts of embed_list; keys is the set of keys a dict has
BuildEmbeds(merged_descs, title, color, fields) ==
  [j \in 1..Len(merged_descs) |->
     [color |-> color,
      description |-> merged_descs[j],
      title |-> IF IsFirstDesc(merged_descs, j) THEN title ELSE None,
      fields |-> IF IsLastDesc(merged_descs, j) THEN fields ELSE <<>>,
      keys |-> {"color", "description"}
               \cup (IF IsFirstDesc(merged_descs, j) THEN {"title"} ELSE {})
               \cup (IF IsLastDesc(merged_descs, j)
                     THEN {"fields", "footer", "timestamp"} ELSE {})]]

construct_embed(action, dts) ==
  LET header == create_embed_header(action, dts)
      parameters == create_embed_content(action, dts)
  IN  IF header.exc # None THEN Raise(header.exc)
      ELSE IF header.none THEN Raise("TypeError")   \* None is unpacked
      ELSE IF parameters.exc # None THEN Raise(parameters.exc)
      ELSE Return(BuildEmbeds(PackChunks(EmbedDesc(dts, parameters.val)),
                              header.title, header.color,
                              create_embed_fields(dts)))

(***************************************************************************)
(* calculate_discord_delay(r, status).  A header is [present, secs]; its   *)
(* value is a str, so it is never == 0.  retry_after is in seconds.        *)
(***************************************************************************)
Max(a, b) == IF a >= b THEN a ELSE b

Millis(secs) == secs * 1000

\* str == int in Python
StrEqInt(h, n) == FALSE

\* bool(headers.get(name)): the header is there and not ''
Truthy(h) == h.present

\* the 429 branch without the buffer added to retry_after
calculate_discord_delay_nobuffer(r, st) ==
  LET bucket_reset_after ==
        IF Truthy(r.reset_after) THEN Millis(r.reset_after.secs) + fixed_delay
        ELSE fixed_delay
  IN  IF st = "429"
      THEN Return(Max(Millis(r.retry_after), bucket_reset_after))
      ELSE Return(fixed_delay)

calculate_discord_delay(r, st) ==
  LET limit_remaining == r.remaining
      bucket_reset_after ==
        IF Truthy(r.reset_after) THEN Millis(r.reset_after.secs) + fixed_delay
        ELSE fixed_delay
  IN  IF st = "200" /\ limit_remaining.present /\ StrEqInt(limit_remaining, 0)
      THEN Raise("TypeError")      \* 'Rate limit ...' + reset_time: str + float
      ELSE IF st = "429"
      THEN Return(Max(Millis(r.retry_after) + fixed_delay, bucket_reset_after))
      ELSE Return(fixed_delay)

(***************************************************************************)
(* send_to_discord: the guard of the while loop, read right after          *)
(* status = None.                                                          *)
(***************************************************************************)
WhileCond(st) == st # "200" /\ st # None

(***************************************************************************)
(* Stream records.  A record is [eventName, NewImage, OldImage]; an image  *)
(* maps every key to its 'S' value or to NoKey.                            *)
(***************************************************************************)
ParaWords == <<"w", "SP", "x">>     \* a paragraph of two words
ParaLong == <<"L">>                 \* a paragraph that is one long token

RECURSIVE JoinParas(_)
JoinParas(ps) ==
  IF Len(ps) = 1 THEN Head(ps)
  ELSE Head(ps) \o <<"NLNL">> \o JoinParas(Tail(ps))

DescsUpTo(n) ==
  {JoinParas(ps) : ps \in UNION {[1..m -> {ParaWords, ParaLong}] : m \in 1..n}}

IsoTime == <<"2022-03-01T10:00:00">>

Image(st, svc, code, desc, region) ==
  [k \in Keys |->
     CASE k = "statusCode" -> st
       [] k = "service" -> svc
       [] k = "eventTypeCode" -> code
       [] k = "eventDescription" -> desc
       [] k = "region" -> region
       [] k = "startTime" -> IsoTime
       [] k = "lastUpdatedTime" -> IsoTime
       [] OTHER -> NoKey]

NoImage == [k \in Keys |-> NoKey]

\* status, service and type code of a new image: all there, or one missing
Essentials ==
  {<<st, <<"EC2">>, <<"AWS_EC2_ISSUE">> >> :
      st \in {<<"open">>, <<"closed">>, <<"upcoming">>, NoKey}}
  \cup {<< <<"open">>, NoKey, <<"AWS_EC2_ISSUE">> >>,
        << <<"open">>, <<"EC2">>, NoKey >>}

Regions == {<<"us-east-1">>, <<"eu-west-1">>}

NewImages(descs) ==
  {Image(e[1], e[2], e[3], d, r) : e \in Essentials, d \in descs, r \in Regions}

OldImages(descs) ==
  {Image(st, <<"EC2">>, <<"AWS_EC2_ISSUE">>, d, <<"us-east-1">>) :
      st \in {<<"open">>, <<"closed">>, NoKey}, d \in descs}

RecordsOver(descs) ==
  {[eventName |-> "INSERT", NewImage |-> n, OldImage |-> NoImage] :
      n \in NewImages(descs)}
  \cup {[eventName |-> "MODIFY", NewImage |-> n, OldImage |-> o] :
      n \in NewImages(descs), o \in OldImages(descs)}
  \cup {[eventName |-> "REMOVE", NewImage |-> NoImage, OldImage |-> NoImage]}

\* the records of a batch, and the records of the single-record model
BatchRecords == RecordsOver({ParaWords, ParaLong})
SingleRecords == RecordsOver(DescsUpTo(MaxParas))

NoEvent == [eventName |-> None, NewImage |-> NoImage, OldImage |-> NoImage]

\* a response of the webhook
HeaderValue(secs) == [present |-> TRUE, secs |-> secs]
NoHeader == [present |-> FALSE, secs |-> 0]

Responses ==
  {[status_code |-> st, retry_after |-> ra, reset_after |-> rs, remaining |-> rm] :
      st \in {"200", "429", "500"},
      ra \in 0..MaxRetryAfter,
      rs \in {NoHeader} \cup {HeaderValue(n) : n \in 0..MaxResetAfter},
      rm \in {NoHeader, HeaderValue(0), HeaderValue(1)}}

NoResponse ==
  [status_code |-> None, retry_after |-> 0, reset_after |-> NoHeader,
   remaining |-> NoHeader]

(***************************************************************************)
(* lambda_handler                                                          *)
(***************************************************************************)
Init ==
  /\ pc = "for_records"
  /\ ev = NoEvent
  /\ details = FreshDetails
  /\ embeds = <<>>
  /\ idx = 0
  /\ status = None
  /\ delay = InitialDelay
  /\ posts = <<>>
  /\ failPosts = <<>>
  /\ exc = None
  /\ resp = NoResponse

\* except Exception as e: post to FAIL_URL, then raise
HandlerExcept(e) ==
  /\ pc' = "raised"
  /\ exc' = e
  /\ failPosts' = Append(failPosts, "aws_request_id")

\* for ev in Records, action != 'REMOVE': load_dict_values
LoadRecord(recs) ==
  /\ pc = "for_records"
  /\ \E e \in recs :
       /\ e.eventName # "REMOVE"
       /\ ev' = e
       /\ LET r == load_dict_values(e, e.eventName, details) IN
          IF r.exc # None
          THEN HandlerExcept(r.exc) /\ UNCHANGED details
          ELSE /\ details' = r.val
               /\ pc' = "loaded"
               /\ UNCHANGED <<failPosts, exc>>
  /\ embeds' = <<>>
  /\ idx' = 0
  /\ UNCHANGED <<status, delay, posts, resp>>

\* for ev in Records, action == 'REMOVE': nothing is done
SkipRemove(recs) ==
  /\ pc = "for_records"
  /\ \E e \in recs : e.eventName = "REMOVE" /\ ev' = e
  /\ embeds' = <<>>
  /\ idx' = 0
  /\ UNCHANGED <<pc, details, status, delay, posts, failPosts, exc, resp>>

\* the for loop is over: the handler returns
HandlerReturn ==
  /\ pc = "for_records"
  /\ pc' = "returned"
  /\ UNCHANGED <<ev, details, embeds, idx, status, delay, posts, failPosts, exc, resp>>

\* handle_event: construct_embed, then the entry of send_to_discord
HandleEvent ==
  /\ pc = "loaded"
  /\ LET r == construct_embed(ev.eventName, details) IN
     IF r.exc # None
     THEN HandlerExcept(r.exc) /\ UNCHANGED <<embeds, idx, delay>>
     ELSE IF r.val = <<>>                 \* bool(embeds) == False
     THEN HandlerExcept("TypeError") /\ UNCHANGED <<embeds, idx, delay>>
     ELSE /\ embeds' = r.val
          /\ delay' = InitialDelay
          /\ idx' = 1
          /\ pc' = "send"
          /\ UNCHANGED <<failPosts, exc>>
  /\ UNCHANGED <<ev, details, status, posts, resp>>

\* for embed in embeds: status = None, then the while loop.  The loop's
\* guard is false on entry, so its body (the POST, the reading of the
\* response, return True) is not run and the for loop moves on.
SendEmbed ==
  /\ pc = "send"
  /\ idx <= Len(embeds)
  /\ status' = None
  /\ IF WhileCond(status')
     THEN pc' = "post" /\ UNCHANGED idx
     ELSE pc' = "send" /\ idx' = idx + 1
  /\ UNCHANGED <<ev, details, embeds, delay, posts, failPosts, exc, resp>>

\* the for loop of send_to_discord is over: it returns None, handle_event
\* returns, and lambda_handler takes the next record
SendReturn ==
  /\ pc = "send"
  /\ idx > Len(embeds)
  /\ pc' = "for_records"
  /\ UNCHANGED <<ev, details, embeds, idx, status, delay, posts, failPosts, exc, resp>>

Next ==
  \/ LoadRecord(BatchRecords)
  \/ SkipRemove(BatchRecords)
  \/ HandlerReturn
  \/ HandleEvent
  \/ SendEmbed
  \/ SendReturn

Spec == Init /\ [][Next]_vars

(***************************************************************************)
(* An invocation with one record, over descriptions of up to MaxParas      *)
(* paragraphs.                                                             *)
(***************************************************************************)
LoadSingle == ev = NoEvent /\ LoadRecord(SingleRecords)

ReturnSingle == ev # NoEvent /\ HandlerReturn

NextSingle ==
  \/ LoadSingle
  \/ HandleEvent
  \/ SendEmbed
  \/ SendReturn
  \/ ReturnSingle

SpecSingle == Init /\ [][NextSingle]_vars

(***************************************************************************)
(* calculate_discord_delay applied to a response.                          *)
(***************************************************************************)
InitDelay ==
  /\ pc = "delay"
  /\ resp \in Responses
  /\ status = resp.status_code
  /\ ev = NoEvent
  /\ details = FreshDetails
  /\ embeds = <<>>
  /\ idx = 0
  /\ delay = InitialDelay
  /\ posts = <<>>
  /\ failPosts = <<>>
  /\ exc = None

CalcDelay ==
  /\ pc = "delay"
  /\ LET r == calculate_discord_delay(resp, status) IN
     IF r.exc # None
     THEN pc' = "delay_raised" /\ UNCHANGED delay
     ELSE pc' = "delay_done" /\ delay' = r.val
  /\ UNCHANGED <<ev, details, embeds, idx, status, posts, failPosts, exc, resp>>

NextDelay == CalcDelay

SpecDelay == InitDelay /\ [][NextDelay]_vars

(***************************************************************************)
(* Properties                                                              *)
(***************************************************************************)
\* payload k of the current notification was POSTed / was answered 200
Posted(k) == \E i \in 1..Len(posts) : posts[i].embed = k
Delivered(k) == \E i \in 1..Len(posts) : posts[i].embed = k /\ posts[i].status = "200"

\* send_to_discord has returned for the notification in embeds
SendReturned == pc \in {"for_records", "returned"} /\ embeds # <<>>

\* C1: when send_to_discord returns, every payload of the notification has
\* been POSTed at least once and has been answered 200.
C1_AllPayloadsDelivered ==
  SendReturned => \A k \in 1..Len(embeds) : Posted(k) /\ Delivered(k)

\* C2: payloads go out in list order: while the send loop stands on payload
\* idx, every payload before it has been answered 200.
C2_InOrderAfterDelivered ==
  (pc = "send" /\ idx <= Len(embeds)) => \A k \in 1..(idx - 1) : Delivered(k)

\* C3: a payload whose status is not 200 is never left: the send loop moves
\* to the next payload, or returns, only with status 200 for the current one.
C3_RetriedUntilDelivered ==
  [][(pc = "send" /\ (idx' # idx \/ pc' # "send")) => status' = "200"]_vars

\* x-ratelimit-reset-after in milliseconds, 0 when the header is absent
ResetAfterOrZero(r) ==
  IF r.reset_after.present THEN r.reset_after.secs * 1000 ELSE 0

\* C4: on a 429 the delay is max(retry_after, resetAfter) + 0.25 s, with
\* resetAfter 0 when the header is absent.
C4_RateLimitedDelay ==
  (pc = "delay_done" /\ status = "429") =>
     delay = Max(resp.retry_after * 1000, ResetAfterOrZero(resp)) + 250

\* 429 with retry_after = 2.0 and no reset-after header: 2.25 s
C4_Witness ==
  /\ pc = "delay_done" /\ status = "429"
  /\ resp.retry_after = 2 /\ ~resp.reset_after.present
  /\ delay = 2250

\* C5: on a 200 with remaining quota 0 and reset-after R the delay for the
\* next payload is R + 0.25 s.
C5_ExhaustedQuotaDelay ==
  (/\ pc \in {"delay_done", "delay_raised"}
   /\ status = "200"
   /\ resp.remaining = HeaderValue(0)
   /\ resp.reset_after.present)
  => (pc = "delay_done" /\ delay = resp.reset_after.secs * 1000 + 250)

\* the content blocks construct_embed packed for the record in ev
CurrentEmbedDesc ==
  EmbedDesc(details, create_embed_content(ev.eventName, details).val)

\* C7: in a notification of more than one payload only the first payload
\* has a title and only the last has fields, footer and timestamp.
C7_TitleFirstFooterLast ==
  Len(embeds) > 1 =>
    \A j \in 1..Len(embeds) :
       /\ "title" \in embeds[j].keys <=> j = 1
       /\ "fields" \in embeds[j].keys <=> j = Len(embeds)
       /\ "footer" \in embeds[j].keys <=> j = Len(embeds)
       /\ "timestamp" \in embeds[j].keys <=> j = Len(embeds)

\* a notification in which two payloads have the same body text
C7_Witness ==
  /\ Len(embeds) > 2
  /\ \E i, j \in 1..Len(embeds) :
        i # j /\ embeds[i].description = embeds[j].description
  /\ "title" \in embeds[1].keys
  /\ "footer" \in embeds[Len(embeds)].keys

\* the longest chunk compare_event_descriptions makes of a line that wraps:
\* 990 characters in the '```diff' wrapper with the diff code before them
BlockLimit == DeltaMaxChars + PyLen(<<"OPEN", "+", "SP", "CLOSE">>)

\* C8: when no content block is longer than about 1000 characters, no
\* payload body is longer than 3000 characters.
C8_BodyWithinBudget ==
  (/\ embeds # <<>>
   /\ \A i \in 1..Len(CurrentEmbedDesc) : PyLen(CurrentEmbedDesc[i]) <= BlockLimit)
  => \A j \in 1..Len(embeds) : PyLen(embeds[j].description) <= 3000

\* C9: the payload bodies, joined in order, are the content blocks joined
\* in order.
C9_BlocksPreserved ==
  embeds # <<>> =>
    Join([j \in 1..Len(embeds) |-> embeds[j].description]) = Join(CurrentEmbedDesc)

\* handle_event has run for the record in ev
Handled == pc # "loaded" /\ ev.eventName \in {"INSERT", "MODIFY"}

OpenClosed == {<<"open">>, <<"closed">>}

\* details holds status, service and type code, and (transition, new status,
\* old status) is one of the six combinations of the table
Classifiable ==
  /\ details["statusCode"].NewValue # NoKey
  /\ details["service"].NewValue # NoKey
  /\ details["eventTypeCode"].NewValue # NoKey
  /\ \/ ev.eventName = "INSERT" /\ details["statusCode"].NewValue \in OpenClosed
     \/ /\ ev.eventName = "MODIFY"
        /\ details["statusCode"].NewValue \in OpenClosed
        /\ details["statusCode"].OldValue \in OpenClosed

\* red, blue, amber, blue, red, green
TableColor ==
  LET new == details["statusCode"].NewValue
      old == details["statusCode"].OldValue
  IN  IF ev.eventName = "INSERT"
      THEN (IF new = <<"open">> THEN 16711680 ELSE 38655)
      ELSE IF new = <<"open">> /\ old = <<"open">> THEN 16760576
      ELSE IF new = <<"closed">> /\ old = <<"closed">> THEN 38655
      ELSE IF new = <<"open">> /\ old = <<"closed">> THEN 16711680
      ELSE 65280

\* C10: each of the six combinations is classified, with the colour of the
\* table; with any other combination, or with status, service or type code
\* missing from details, the record ends in an error and no payload is built
\* or sent for it.
C10_ClassificationTotal ==
  Handled =>
    /\ Classifiable =>
         /\ exc \notin {"UnboundLocalError", "TypeError"}
         /\ pc # "raised" =>
              /\ embeds # <<>>
              /\ \A j \in 1..Len(embeds) : embeds[j].color = TableColor
              /\ embeds[1].title # None
    /\ ~Classifiable =>
         /\ pc = "raised"
         /\ exc \in {"UnboundLocalError", "TypeError", "KeyError"}
         /\ embeds = <<>>
         /\ posts = <<>>

\* an Insert whose status is neither open nor closed has ended in an error
C10_Witness ==
  /\ pc = "raised"
  /\ ev.eventName = "INSERT"
  /\ details["statusCode"].NewValue = <<"upcoming">>
  /\ exc = "UnboundLocalError"
  /\ embeds = <<>>

\* the description of the record in ev is the same in both images
DescriptionUnchanged ==
  /\ ev.eventName = "MODIFY"
  /\ ev.OldImage["eventDescription"] = ev.NewImage["eventDescription"]

\* the text holds the '**DESCRIPTION CHANGED:**' marker
HasMarker(text) == \E i \in 1..Len(text) : text[i] = "MARK"

\* C11: for an Update record whose old and new description are equal, the
\* description entry has no diff chunks and no payload body holds the
\* "DESCRIPTION CHANGED" marker, whatever records came before it.
C11_NoDiffWhenUnchanged ==
  DescriptionUnchanged =>
    /\ ~HasDelta(details)
    /\ \A j \in 1..Len(embeds) : ~HasMarker(embeds[j].description)

\* C12: a classification error on one record is isolated: the record is
\* skipped and lambda_handler goes on to the other records of the batch.
C12_RecordErrorIsolated ==
  [][(pc = "loaded" /\ ~Classifiable) => pc' = "for_records"]_vars

\* the record in ev classifies, its content is built, and there is no
\* content block at all
NoContentBlocks ==
  /\ Handled
  /\ Classifiable
  /\ create_embed_content(ev.eventName, details).exc = None
  /\ CurrentEmbedDesc = <<>>

\* C13: a record with zero content blocks still gets exactly one payload,
\* with an empty body, that has title, color, fields, footer and timestamp;
\* the list handed to send_to_discord is never empty.
C13_EmptyBodyPayload ==
  /\ NoContentBlocks =>
       /\ pc # "raised"
       /\ Len(embeds) = 1
       /\ embeds[1].description = <<>>
       /\ embeds[1].keys =
            {"color", "description", "title", "fields", "footer", "timestamp"}
       /\ embeds[1].title # None
  /\ pc = "send" => embeds # <<>>

\* an Update in which nothing visible changed is being sent
C13_Witness ==
  /\ NoContentBlocks
  /\ ev.eventName = "MODIFY"
  /\ pc = "send"
  /\ Len(embeds) = 1
  /\ embeds[1].description = <<>>

====
